---- MODULE Spec2Model ----
(***************************************************************************)
(* Client-side session / token lifecycle of the admin console:             *)
(*   - the cookie token store            (lib/cookies)                     *)
(*   - the token inspector               (lib/cookies)                     *)
(*   - ApiClient.ensureValidToken / request / login / register /           *)
(*     refreshToken / health             (lib/api/client.ts)               *)
(*   - the zustand auth store            (lib/stores/auth)                 *)
(*   - the periodic token validation     (lib/hooks/auth)                  *)
(*                                                                         *)
(* JavaScript runs one task at a time.  A task (a user action, a timer, a  *)
(* network response) runs to completion and then the microtask queue mq    *)
(* (promise reactions, in FIFO order) is drained before the next task.     *)
(* Every action that models a task is guarded by mq = <<>>.                *)
(***************************************************************************)
EXTENDS Integers, Sequences, FiniteSets, TLC

\* ------------------------------------------------------------------ bounds
NCalls    == 2      \* API calls made during one page life
MaxMint   == 3      \* token pairs the server issues, the one found at page load included
MaxTime   == 1900   \* the clock stops here
MaxFaults == 1      \* storage writes the environment may make fail
MaxTimers == 2      \* intervals the browser keeps at a time
MaxSeconds == 2     \* seconds that pass while the token inspector is examined
ShortLife == 60     \* lifetime of an access token that is already expiring when issued

\* ------------------------------------------------------- program constants
BufferTime  == 120       \* 2 * 60
AccessLife  == 900       \* 60 * 15
RefreshLife == 7776000   \* 60 * 60 * 24 * 90

Calls == 1..NCalls

ProtectedEndpoints == {"/health", "/devices"}
AuthEndpoints      == {"/auth/login", "/auth/register", "/auth/refresh"}

NoToken == [id |-> 0, exp |-> 0, until |-> 0]

VARIABLES
  now,            \* Math.floor(Date.now() / 1000)
  authTok,        \* cookie auth_token    (NoToken: no cookie)
  refreshTok,     \* cookie refresh_token (NoToken: no cookie)
  faults,         \* storage writes that may still fail
  minted,         \* token pairs issued by the server so far
  life,           \* lifetime of the access tokens the server issues, on the client's clock
  isRefreshing,   \* ApiClient.isRefreshing
  refreshPromise, \* ApiClient.refreshPromise: 0 (null) or the call whose renewal request it is
  calls,          \* per API call: endpoint, position, isRetry, result
  waiters,        \* per renewal promise: calls awaiting it, in arrival order
  mq,             \* microtask queue
  isAuthenticated,\* useAuthStore.isAuthenticated
  userSet,        \* useAuthStore.user / organization are non-null
  mounted,        \* the component that calls useAuthInitializer() is mounted
  timers,         \* the intervals of setInterval(validateTokens, ...) that are active
  intervalRef,    \* intervalRef.current: an interval id, 0 for null
  hist,           \* history, per call that is under way
  last            \* history: the call that has just ended, with its result

vars == <<now, authTok, refreshTok, faults, minted, life, isRefreshing, refreshPromise,
          calls, waiters, mq, isAuthenticated, userSet, mounted, timers, intervalRef,
          hist, last>>

\* the variables of useAuthInitializer
hook == <<mounted, timers, intervalRef>>

\* ------------------------------------------------------------ token store
\* getCookie: a cookie past its maxAge is gone
getCookieValue(cookie) ==
  IF cookie.id # 0 /\ now < cookie.until THEN cookie ELSE NoToken

getAuthToken == getCookieValue(authTok)

getRefreshToken == getCookieValue(refreshTok)

\* ---------------------------------------------------------- token inspector
\* token: a cookie value or NoToken; exp = 0 is a payload without exp, exp = -1
\* a token that does not decode (decodeJWTPayload returns null)
decodeJWTPayload(token) ==
  [null |-> token.exp = -1, exp |-> token.exp]

\* variant: the comparison with the buffer is strict
isTokenExpiredOrExpiringSoonStrict(token, t) ==
  IF token.id = 0 THEN TRUE
  ELSE IF decodeJWTPayload(token).null \/ decodeJWTPayload(token).exp = 0 THEN TRUE
  ELSE decodeJWTPayload(token).exp < t + BufferTime

isTokenExpiredOrExpiringSoonAt(token, t) ==
  IF token.id = 0 THEN TRUE
  ELSE IF decodeJWTPayload(token).null \/ decodeJWTPayload(token).exp = 0 THEN TRUE
  ELSE decodeJWTPayload(token).exp <= t + BufferTime

isTokenExpiredOrExpiringSoon(token) == isTokenExpiredOrExpiringSoonAt(token, now)

\* variant: a refresh token is still valid in the second it expires
isRefreshTokenValidInclusive(token, t) ==
  IF token.id = 0 THEN FALSE
  ELSE IF decodeJWTPayload(token).null \/ decodeJWTPayload(token).exp = 0 THEN FALSE
  ELSE decodeJWTPayload(token).exp >= t

isRefreshTokenValidAt(token, t) ==
  IF token.id = 0 THEN FALSE
  ELSE IF decodeJWTPayload(token).null \/ decodeJWTPayload(token).exp = 0 THEN FALSE
  ELSE decodeJWTPayload(token).exp > t

isRefreshTokenValid == isRefreshTokenValidAt(getRefreshToken, now)

\* WriteOutcomes: TRUE when the browser accepts the cookie write
WriteOutcomes == IF faults > 0 THEN {TRUE, FALSE} ELSE {TRUE}

setAuthToken(token, ok) ==
  IF ok THEN [id |-> token.id, exp |-> token.exp, until |-> now + AccessLife]
  ELSE authTok

setRefreshToken(token, ok) ==
  IF ok THEN [id |-> token.id, exp |-> token.exp, until |-> now + RefreshLife]
  ELSE refreshTok

\* setAuthToken(a); setRefreshToken(r): two writes, each with its own try/catch
StorePair(a, r) ==
  \E wa \in WriteOutcomes, wr \in WriteOutcomes :
    LET n == (IF wa THEN 0 ELSE 1) + (IF wr THEN 0 ELSE 1) IN
    /\ n <= faults
    /\ authTok' = setAuthToken(a, wa)
    /\ refreshTok' = setRefreshToken(r, wr)
    /\ faults' = faults - n

\* variant: only the access cookie is deleted
removeAuthTokensAccessOnly ==
  /\ authTok' = NoToken
  /\ UNCHANGED <<refreshTok, faults>>

\* one try block around both deleteCookie calls: f = 1 the first one throws,
\* f = 2 the second one throws
removeAuthTokens ==
  \E f \in (IF faults > 0 THEN {0, 1, 2} ELSE {0}) :
    /\ authTok' = IF f = 1 THEN authTok ELSE NoToken
    /\ refreshTok' = IF f = 0 THEN NoToken ELSE refreshTok
    /\ faults' = IF f = 0 THEN faults ELSE faults - 1

\* ------------------------------------------------------------ the server
\* An HTTP exchange as fetch() shows it: status 0 is a transport failure
\* (fetch rejects), json says whether the body parses, success is the body's
\* success field ("none": missing or not a boolean), error / data say whether
\* the body carries an error payload / a data payload.
Response(st, js, su, er, da) ==
  [status |-> st, json |-> js, success |-> su, error |-> er, data |-> da]

Responses ==
  { Response(200, TRUE,  "true",  FALSE, TRUE),
    Response(200, TRUE,  "true",  FALSE, FALSE),
    Response(200, TRUE,  "true",  TRUE,  TRUE),
    Response(200, TRUE,  "false", FALSE, FALSE),
    Response(200, TRUE,  "false", TRUE,  FALSE),
    Response(200, TRUE,  "none",  FALSE, TRUE),
    Response(401, TRUE,  "false", TRUE,  FALSE),
    Response(401, TRUE,  "false", FALSE, FALSE),
    Response(401, FALSE, "none",  FALSE, FALSE),
    Response(500, TRUE,  "false", TRUE,  FALSE),
    Response(0,   FALSE, "none",  FALSE, FALSE) }

\* lifetimes of the access tokens the server issues, as the client's clock sees
\* them: 15 minutes, or (the client's clock running ahead) next to nothing
AccessLives == {AccessLife, ShortLife}

\* the tokens of one response carry the same id
MintAccess == [id |-> minted + 1, exp |-> now + life, until |-> 0]

MintRefresh == [id |-> minted + 1, exp |-> now + RefreshLife, until |-> 0]

\* --------------------------------------------------------- request(): replies
Throw(code, status) ==
  [k |-> "throw", code |-> code, status |-> status, success |-> FALSE, data |-> FALSE]

Return(r) ==
  [k |-> "return", code |-> "ok", status |-> r.status,
   success |-> (r.success = "true"), data |-> r.data]

\* variant: no endpoint is excluded from the pre-request check
PreCheckAppliesAlways(endpoint) == TRUE

PreCheckApplies(endpoint) ==
  endpoint # "/auth/refresh" /\ endpoint # "/auth/login" /\ endpoint # "/auth/register"

Handles401(endpoint, isRetry) ==
  /\ ~isRetry
  /\ endpoint # "/auth/refresh"
  /\ endpoint # "/auth/login"
  /\ endpoint # "/auth/register"

\* the codes an ApiError of the client carries: ErrorCode.NETWORK_ERROR,
\* TOKEN_EXPIRED, INVALID_TOKEN, or the code of the server's error envelope
ErrorCodes == {"NETWORK_ERROR", "TOKEN_EXPIRED", "INVALID_TOKEN", "SERVER_CODE"}

\* variant: request() without its catch-all, the exception of fetch() escapes
HandleResponseRaw(r, endpoint, isRetry) ==
  IF r.status = 0 THEN Throw("TypeError", 0)
  ELSE IF r.status # 200 THEN
    IF ~r.json THEN Throw("NETWORK_ERROR", r.status)
    ELSE IF r.status = 401 /\ Handles401(endpoint, isRetry)
      THEN [k |-> "refresh401", code |-> "", status |-> 401,
            success |-> FALSE, data |-> FALSE]
    ELSE IF r.error THEN Throw("SERVER_CODE", r.status)
    ELSE Throw("NETWORK_ERROR", r.status)
  ELSE IF ~r.json THEN Throw("NETWORK_ERROR", 0)
  ELSE IF r.success = "none" THEN Throw("NETWORK_ERROR", r.status)
  ELSE IF r.success = "false" /\ r.error THEN Throw("SERVER_CODE", r.status)
  ELSE Return(r)

\* what request() does with the reply to its fetch: "refresh401" enters the
\* 401 handler, "throw" rejects with an ApiError, "return" resolves with the body
HandleResponse(r, endpoint, isRetry) ==
  IF r.status = 0 THEN Throw("NETWORK_ERROR", 0)
  ELSE IF r.status # 200 THEN
    IF ~r.json THEN Throw("NETWORK_ERROR", r.status)
    ELSE IF r.status = 401 /\ Handles401(endpoint, isRetry)
      THEN [k |-> "refresh401", code |-> "", status |-> 401,
            success |-> FALSE, data |-> FALSE]
    ELSE IF r.error THEN Throw("SERVER_CODE", r.status)
    ELSE Throw("NETWORK_ERROR", r.status)
  ELSE IF ~r.json THEN Throw("NETWORK_ERROR", 0)
  ELSE IF r.success = "none" THEN Throw("NETWORK_ERROR", r.status)
  ELSE IF r.success = "false" /\ r.error THEN Throw("SERVER_CODE", r.status)
  ELSE Return(r)

\* ------------------------------------------------------------- the calls
IdleCall ==
  [ep |-> "", pc |-> "idle", isRetry |-> FALSE, evt |-> "none", rfetch |-> FALSE,
   bearer |-> 0]

\* history of a call: evtCount ensureValidToken() calls made; att the renewal
\* (the call that started it) the last of them was attached to, 0 once that call
\* has started another renewal; evtRes how the last of them
\* ended; entIdle / entRT whether the coordinator was Idle / the refresh token
\* valid when the last of them started; nested whether the renewal's own request
\* entered the renewal path; sent requests sent to the call's endpoint; got401
\* the first attempt was answered 401; via401 the 401 handler called
\* ensureValidToken(); startValid the access token looked valid when the call
\* began; seen the access token read right after ensureValidToken() succeeded;
\* renewed the access token the renewal it awaited had received (0: none);
\* overtaken the session operation ("logout", "login") completed while the call
\* was awaiting a renewal, "" when there was none; first the access token the
\* first request carried (-1: nothing sent yet, 0: no bearer)
NoHist ==
  [evtCount |-> 0, att |-> 0, evtRes |-> "", entIdle |-> FALSE, entRT |-> FALSE,
   nested |-> FALSE, sent |-> 0, got401 |-> FALSE, via401 |-> FALSE,
   startValid |-> FALSE, seen |-> -1, renewed |-> 0, overtaken |-> "", first |-> -1]

DoneCall == [IdleCall EXCEPT !.pc = "done"]

\* history of the operation of the auth store, the watchdog or the token
\* inspector that has just run: op its name; ret its return value; c the API
\* call it made; at / exp / rt / auth / busy / nreq what it found (an access
\* token present, that token expired or expiring soon, the refresh token valid,
\* isAuthenticated, isRefreshing, the number of requests in flight); changed
\* whether it changed the cookies or the auth store; again / prevRet /
\* prevChanged the same operation ran in the step before, and with what result;
\* for the middleware: path the pathname requested, to / param the pathname and
\* the redirect parameter of the redirect it answered with, followed whether
\* the request was the browser following a redirect
NoEv ==
  [op |-> "", ret |-> FALSE, c |-> 0, at |-> FALSE, exp |-> FALSE, rt |-> FALSE,
   auth |-> FALSE, busy |-> FALSE, nreq |-> 0, changed |-> FALSE,
   again |-> FALSE, prevRet |-> FALSE, prevChanged |-> FALSE,
   path |-> <<>>, to |-> <<>>, param |-> <<>>, followed |-> FALSE]

NoLast ==
  [c |-> 0, ep |-> "", res |-> "", status |-> 0, success |-> FALSE, isRetry |-> FALSE,
   h |-> NoHist, ev |-> NoEv]

Task(k, c, v, a, r) == [k |-> k, c |-> c, v |-> v, a |-> a, r |-> r]

\* history: the session operation kind completes, noted in every call that is
\* awaiting a renewal
Overtake(h, kind) ==
  [c \in Calls |->
     IF calls[c].evt # "none" THEN [h[c] EXCEPT !.overtaken = kind] ELSE h[c]]

\* the call ends: its promise settles with res (code "ok": resolved)
Finish(c, code, status, success, cs, q, h) ==
  /\ calls' = [cs EXCEPT ![c] = DoneCall]
  /\ mq' = q
  /\ hist' = [h EXCEPT ![c] = NoHist]
  /\ last' = [c |-> c, ep |-> cs[c].ep, res |-> code, status |-> status,
              success |-> success, isRetry |-> cs[c].isRetry, h |-> h[c], ev |-> NoEv]
  /\ UNCHANGED <<waiters, isRefreshing, refreshPromise>>

\* request(), lines 126-137: attach the stored access token and fetch
SendFetch(c, retry, cs, q, h) ==
  /\ calls' = [cs EXCEPT ![c].pc = "fetch", ![c].isRetry = retry,
                         ![c].bearer = getAuthToken.id, ![c].evt = "none"]
  /\ mq' = q
  /\ hist' = [h EXCEPT ![c].sent = @ + 1,
                        ![c].first = IF h[c].sent = 0 THEN getAuthToken.id ELSE @]
  /\ last' = NoLast
  /\ UNCHANGED <<waiters, isRefreshing, refreshPromise>>

\* ensureValidToken() up to its first await, called from request() at site
\* ("evtPre": line 117, "evt401": line 158)
\* variant: ensureValidToken() without its waiter branch
EnsureValidTokenJoinsNever == FALSE

\* variant: ensureValidToken() without its refresh token check
EnsureValidTokenRejectsNever == FALSE

EnsureValidTokenJoins == isRefreshing /\ refreshPromise # 0

EnsureValidTokenRejects == getRefreshToken.id = 0 \/ ~isRefreshTokenValid

ensureValidToken(c, site, retry, cs, q, h) ==
  LET h1 == [h EXCEPT ![c].evtCount = @ + 1,
                      ![c].entIdle = ~isRefreshing,
                      ![c].entRT = isRefreshTokenValid,
                      ![c].evtRes = "", ![c].seen = -1, ![c].renewed = 0]
      cs1 == [cs EXCEPT ![c].pc = site, ![c].isRetry = retry]
  IN
  /\ last' = NoLast
  /\ IF EnsureValidTokenJoins THEN
         /\ calls' = [cs1 EXCEPT ![c].evt = "wait"]
         /\ waiters' = [waiters EXCEPT ![refreshPromise] = Append(@, c)]
         /\ mq' = q
         /\ hist' = [h1 EXCEPT ![c].att = refreshPromise]
         /\ UNCHANGED <<isRefreshing, refreshPromise>>
       ELSE IF EnsureValidTokenRejects THEN
         /\ calls' = cs1
         /\ mq' = Append(q, Task("cont", c, "INVALID_TOKEN", NoToken, NoToken))
         /\ hist' = [h1 EXCEPT ![c].att = 0, ![c].evtRes = "INVALID_TOKEN"]
         /\ UNCHANGED <<waiters, isRefreshing, refreshPromise>>
       ELSE
         /\ isRefreshing' = TRUE
         /\ refreshPromise' = c
         /\ calls' = [cs1 EXCEPT ![c].evt = "init", ![c].rfetch = TRUE]
         /\ waiters' = [waiters EXCEPT ![c] = <<>>]
         /\ mq' = q
         /\ hist' = [d \in Calls |->
                       IF d = c
                       THEN [h1[c] EXCEPT !.att = c,
                                          !.nested = PreCheckApplies("/auth/refresh")
                                            /\ isTokenExpiredOrExpiringSoon(getAuthToken)]
                       ELSE IF h1[d].att = c THEN [h1[d] EXCEPT !.att = 0]
                       ELSE h1[d]]

\* variant: request() without its pre-request check
requestNoPreCheck(c, retry, cs, q, h) == SendFetch(c, retry, cs, q, h)

\* request() up to its first await
request(c, retry, cs, q, h) ==
  IF PreCheckApplies(cs[c].ep) /\ isTokenExpiredOrExpiringSoon(getAuthToken)
  THEN ensureValidToken(c, "evtPre", retry, cs, q, h)
  ELSE SendFetch(c, retry, cs, q, h)

\* the requests that await their reply
RequestsInFlight ==
  Cardinality({c \in Calls : calls[c].pc = "fetch"})
    + Cardinality({c \in Calls : calls[c].rfetch})

\* the history record of operation op returning ret, taken as it runs
Observed(op, ret) ==
  [op |-> op, ret |-> ret, c |-> 0,
   at |-> getAuthToken.id # 0,
   exp |-> isTokenExpiredOrExpiringSoon(getAuthToken),
   rt |-> isRefreshTokenValid,
   auth |-> isAuthenticated,
   busy |-> isRefreshing,
   nreq |-> RequestsInFlight,
   changed |-> <<authTok', refreshTok', isAuthenticated', userSet'>>
                 # <<authTok, refreshTok, isAuthenticated, userSet>>,
   again |-> last.ev.op = op,
   prevRet |-> last.ev.op = op /\ last.ev.ret,
   prevChanged |-> last.ev.op = op /\ last.ev.changed,
   path |-> <<>>, to |-> <<>>, param |-> <<>>, followed |-> FALSE]

\* -------------------------------------------------------------- auth store
setAuth(u) ==
  /\ isAuthenticated' = TRUE
  /\ userSet' = u

clearAuth ==
  /\ removeAuthTokens
  /\ isAuthenticated' = FALSE
  /\ userSet' = FALSE

\* variant: the return value follows the access token alone
checkAuthReturnsHasToken == getAuthToken.id # 0

\* variant: the return value without the early `return false`
checkAuthReturnsEither == getAuthToken.id # 0 \/ isRefreshTokenValid

checkAuthReturns ==
  IF ~isRefreshTokenValid THEN FALSE
  ELSE (getAuthToken.id # 0 \/ isRefreshTokenValid)

\* variant: the session is cleared whatever isAuthenticated is
checkAuthClearsAlways ==
  IF ~isRefreshTokenValid
  THEN clearAuth
  ELSE UNCHANGED <<authTok, refreshTok, faults, isAuthenticated, userSet>>

checkAuth ==
  IF ~isRefreshTokenValid /\ isAuthenticated
  THEN clearAuth
  ELSE UNCHANGED <<authTok, refreshTok, faults, isAuthenticated, userSet>>

\* ------------------------------------------------------------------ tasks
FirstIdle(c) ==
  /\ calls[c].pc = "idle"
  /\ \A d \in Calls : d < c => calls[d].pc # "idle"

Started(c, ep) ==
  [hist EXCEPT ![c].startValid = ~isTokenExpiredOrExpiringSoon(getAuthToken)]

\* a page calls apiClient.getDevices(), login() or register()
StartCall(c, ep) ==
  /\ mq = <<>>
  /\ FirstIdle(c)
  /\ request(c, FALSE, [calls EXCEPT ![c].ep = ep], mq, Started(c, ep))
  /\ UNCHANGED <<now, life, minted, authTok, refreshTok, faults, isAuthenticated, userSet, hook>>

\* a page calls apiClient.refreshToken()
StartRefreshToken(c) ==
  /\ mq = <<>>
  /\ FirstIdle(c)
  /\ LET cs == [calls EXCEPT ![c].ep = "/auth/refresh"] IN
     IF getRefreshToken.id = 0 \/ ~isRefreshTokenValid
     THEN Finish(c, "INVALID_TOKEN", 401, FALSE, cs, mq, Started(c, "/auth/refresh"))
     ELSE request(c, TRUE, cs, mq, Started(c, "/auth/refresh"))
  /\ UNCHANGED <<now, life, minted, authTok, refreshTok, faults, isAuthenticated, userSet, hook>>

\* what request(endpoint, ., isRetry) may make of the reply to its fetch
Replies(endpoint, isRetry) ==
  { HandleResponse(r, endpoint, isRetry) : r \in Responses }

\* the reply to the fetch of call c arrives; request() handles it as h
FetchArrive(c, h) ==
  /\ mq = <<>>
  /\ calls[c].pc = "fetch"
  /\ h \in Replies(calls[c].ep, calls[c].isRetry)
  /\ LET ep == calls[c].ep
         first401 == h.status = 401 /\ ~calls[c].isRetry
         h0 == [hist EXCEPT ![c].got401 = @ \/ first401]
         stores == h.k = "return" /\ h.success /\ h.data /\ ep \in AuthEndpoints
     IN
     /\ stores => minted < MaxMint
     /\ IF h.k = "refresh401" THEN
          /\ ensureValidToken(c, "evt401", calls[c].isRetry, calls, mq,
                              [h0 EXCEPT ![c].via401 = TRUE])
          /\ UNCHANGED <<authTok, refreshTok, faults, minted, isAuthenticated, userSet>>
        ELSE
          /\ Finish(c, h.code, h.status, h.success, calls, mq,
                    IF stores /\ ep \in {"/auth/login", "/auth/register"}
                    THEN Overtake(h0, "login") ELSE h0)
          /\ IF stores
             THEN StorePair(MintAccess, MintRefresh) /\ minted' = minted + 1
             ELSE UNCHANGED <<authTok, refreshTok, faults, minted>>
          /\ IF h.k = "return" /\ ep \in {"/auth/login", "/auth/register"}
             THEN setAuth(ep = "/auth/register" /\ h.data)
             ELSE UNCHANGED <<isAuthenticated, userSet>>
  /\ UNCHANGED <<now, life, hook>>

\* variant: the promise of the renewal settles for the call that started it
\* only, the calls that joined are never resumed
RefreshArriveInitiatorOnly(c, h) ==
  /\ mq = <<>>
  /\ calls[c].rfetch
  /\ h \in Replies("/auth/refresh", TRUE)
  /\ LET good == h.k = "return" /\ h.success /\ h.data
         v == IF good THEN "data" ELSE IF h.k = "return" THEN "nodata" ELSE h.code
     IN
     /\ good => minted < MaxMint
     /\ minted' = IF good THEN minted + 1 ELSE minted
     /\ LET a == IF good THEN MintAccess ELSE NoToken
            rt == IF good THEN MintRefresh ELSE NoToken
        IN mq' = <<Task("evtInit", c, v, a, rt)>>
  /\ calls' = [calls EXCEPT ![c].rfetch = FALSE]
  /\ waiters' = [waiters EXCEPT ![c] = <<>>]
  /\ last' = NoLast
  /\ UNCHANGED <<now, life, authTok, refreshTok, faults, isRefreshing, refreshPromise,
                 isAuthenticated, userSet, hist, hook>>

\* the reply to the renewal request of call c arrives and request() handles it
\* as h: refreshPromise settles and its reactions are queued, the initiator's first
RefreshArrive(c, h) ==
  /\ mq = <<>>
  /\ calls[c].rfetch
  /\ h \in Replies("/auth/refresh", TRUE)
  /\ LET good == h.k = "return" /\ h.success /\ h.data
         v == IF good THEN "data" ELSE IF h.k = "return" THEN "nodata" ELSE h.code
     IN
     /\ good => minted < MaxMint
     /\ minted' = IF good THEN minted + 1 ELSE minted
     /\ LET a == IF good THEN MintAccess ELSE NoToken
            rt == IF good THEN MintRefresh ELSE NoToken
        IN mq' = <<Task("evtInit", c, v, a, rt)>> \o
                 [i \in 1..Len(waiters[c]) |-> Task("evtWait", waiters[c][i], v, a, rt)]
  /\ calls' = [calls EXCEPT ![c].rfetch = FALSE]
  /\ waiters' = [waiters EXCEPT ![c] = <<>>]
  /\ last' = NoLast
  /\ UNCHANGED <<now, life, authTok, refreshTok, faults, isRefreshing, refreshPromise,
                 isAuthenticated, userSet, hist, hook>>

\* -------------------------------------------------------------- microtasks
\* variant: ensureValidToken() without `finally`, the flags are reset only
\* after a renewal that succeeded
EvtInitNoFinally ==
  /\ mq # <<>>
  /\ Head(mq).k = "evtInit"
  /\ LET t == Head(mq)
         out == IF t.v = "data" THEN "ok"
                ELSE IF t.v = "nodata" THEN "TOKEN_EXPIRED"
                ELSE t.v
     IN
     /\ IF t.v = "data" THEN StorePair(t.a, t.r)
                        ELSE UNCHANGED <<authTok, refreshTok, faults>>
     /\ isRefreshing' = IF t.v = "data" THEN FALSE ELSE isRefreshing
     /\ refreshPromise' = IF t.v = "data" THEN 0 ELSE refreshPromise
     /\ calls' = [calls EXCEPT ![t.c].evt = "none"]
     /\ hist' = [hist EXCEPT ![t.c].evtRes = out, ![t.c].renewed = t.a.id]
     /\ mq' = Append(Tail(mq), Task("cont", t.c, out, NoToken, NoToken))
  /\ last' = NoLast
  /\ UNCHANGED <<now, life, minted, waiters, isAuthenticated, userSet, hook>>

\* ensureValidToken(), lines 90-102, in the call that started the renewal
EvtInit ==
  /\ mq # <<>>
  /\ Head(mq).k = "evtInit"
  /\ LET t == Head(mq)
         out == IF t.v = "data" THEN "ok"
                ELSE IF t.v = "nodata" THEN "TOKEN_EXPIRED"
                ELSE t.v
     IN
     /\ IF t.v = "data" THEN StorePair(t.a, t.r)
                        ELSE UNCHANGED <<authTok, refreshTok, faults>>
     /\ isRefreshing' = FALSE
     /\ refreshPromise' = 0
     /\ calls' = [calls EXCEPT ![t.c].evt = "none"]
     /\ hist' = [hist EXCEPT ![t.c].evtRes = out, ![t.c].renewed = t.a.id]
     /\ mq' = Append(Tail(mq), Task("cont", t.c, out, NoToken, NoToken))
  /\ last' = NoLast
  /\ UNCHANGED <<now, life, minted, waiters, isAuthenticated, userSet, hook>>

\* ensureValidToken(), lines 70-73, in a call that joined the renewal
EvtWait ==
  /\ mq # <<>>
  /\ Head(mq).k = "evtWait"
  /\ LET t == Head(mq)
         out == IF t.v \in {"data", "nodata"} THEN "ok" ELSE t.v
     IN
     /\ calls' = [calls EXCEPT ![t.c].evt = "none"]
     /\ hist' = [hist EXCEPT ![t.c].evtRes = out, ![t.c].renewed = t.a.id]
     /\ mq' = Append(Tail(mq), Task("cont", t.c, out, NoToken, NoToken))
  /\ last' = NoLast
  /\ UNCHANGED <<now, life, minted, authTok, refreshTok, faults, isRefreshing,
                 refreshPromise, waiters, isAuthenticated, userSet, hook>>

\* request() after `await this.ensureValidToken()` (lines 117-122, 158-165)
Cont ==
  /\ mq # <<>>
  /\ Head(mq).k = "cont"
  /\ LET t == Head(mq)
         c == t.c
         h0 == [hist EXCEPT ![c].seen = IF t.v = "ok" THEN getAuthToken.id ELSE @,
                            ![c].overtaken = ""]
     IN
     IF t.v = "ok" THEN
       /\ IF calls[c].pc = "evtPre"
          THEN SendFetch(c, calls[c].isRetry, calls, Tail(mq), h0)
          ELSE request(c, TRUE, calls, Tail(mq), h0)
       /\ UNCHANGED <<authTok, refreshTok, faults>>
     ELSE
       /\ removeAuthTokens
       /\ Finish(c, "TOKEN_EXPIRED", 401, FALSE, calls, Tail(mq), h0)
  /\ UNCHANGED <<now, life, minted, isAuthenticated, userSet, hook>>

\* ------------------------------------------------------------ more tasks
\* the user logs out: the UI calls clearAuth()
Logout ==
  /\ mq = <<>>
  /\ clearAuth
  /\ last' = [NoLast EXCEPT !.ev = Observed("clearAuth", FALSE)]
  /\ hist' = Overtake(hist, "logout")
  /\ UNCHANGED <<now, life, minted, isRefreshing, refreshPromise, calls, waiters, mq,
                 hook>>

\* a component calls checkAuth()
CheckAuth ==
  /\ mq = <<>>
  /\ checkAuth
  /\ last' = [NoLast EXCEPT !.ev = Observed("checkAuth", checkAuthReturns)]
  /\ UNCHANGED <<now, life, minted, isRefreshing, refreshPromise, calls, waiters, mq,
                 hist, hook>>

\* variant: the tick calls health() whatever the refresh token is
validateTokensRefreshesAnyway == isTokenExpiredOrExpiringSoon(getAuthToken)

\* validateTokens(), line 28: the tick calls apiClient.health()
validateTokensRefreshes ==
  isTokenExpiredOrExpiringSoon(getAuthToken) /\ isRefreshTokenValid

\* a tick of the 5 minute interval of useAuthInitializer: validateTokens()
validateTokens ==
  /\ mq = <<>>
  /\ timers # {}
  /\ IF validateTokensRefreshes THEN
       /\ \E c \in Calls :
            /\ FirstIdle(c)
            /\ request(c, FALSE, [calls EXCEPT ![c].ep = "/health"], mq,
                       Started(c, "/health"))
       /\ UNCHANGED <<authTok, refreshTok, faults, isAuthenticated, userSet>>
     ELSE IF ~isRefreshTokenValid THEN
       /\ clearAuth
       /\ last' = [NoLast EXCEPT !.ev = Observed("validateTokens", FALSE)]
       /\ UNCHANGED <<isRefreshing, refreshPromise, calls, waiters, mq, hist>>
     ELSE
       /\ UNCHANGED <<authTok, refreshTok, faults, isAuthenticated, userSet,
                      isRefreshing, refreshPromise, calls, waiters, mq, hist>>
       /\ last' = [NoLast EXCEPT !.ev = Observed("validateTokens", FALSE)]
  /\ UNCHANGED <<now, life, minted, hook>>

\* useAuthInitializer, lines 17-43: the effect runs
Mount ==
  /\ mq = <<>>
  /\ ~mounted
  /\ Cardinality(timers) < MaxTimers
  /\ mounted' = TRUE
  /\ checkAuth
  /\ LET id == CHOOSE i \in 1..MaxTimers : i \notin timers IN
       /\ timers' = timers \cup {id}
       /\ intervalRef' = id
  /\ last' = NoLast
  /\ UNCHANGED <<now, life, minted, isRefreshing, refreshPromise, calls, waiters, mq,
                 hist>>

\* variant: a cleanup that leaves the interval running
UnmountKeepsInterval ==
  /\ mq = <<>>
  /\ mounted
  /\ mounted' = FALSE
  /\ last' = NoLast
  /\ UNCHANGED <<now, life, minted, authTok, refreshTok, faults, isRefreshing,
                 refreshPromise, calls, waiters, mq, isAuthenticated, userSet, hist,
                 timers, intervalRef>>

\* useAuthInitializer, lines 45-49: the effect's cleanup runs
Unmount ==
  /\ mq = <<>>
  /\ mounted
  /\ mounted' = FALSE
  /\ timers' = IF intervalRef # 0 THEN timers \ {intervalRef} ELSE timers
  /\ last' = NoLast
  /\ UNCHANGED <<now, life, minted, authTok, refreshTok, faults, isRefreshing,
                 refreshPromise, calls, waiters, mq, isAuthenticated, userSet, hist,
                 intervalRef>>

\* time passes
Tick ==
  /\ mq = <<>>
  /\ now + AccessLife <= MaxTime
  /\ now' = now + AccessLife
  /\ last' = NoLast
  /\ UNCHANGED <<life, minted, authTok, refreshTok, faults, isRefreshing, refreshPromise,
                 calls, waiters, mq, isAuthenticated, userSet, hist, hook>>

\* ------------------------------------------------------------------- Init
\* the cookies a page load may find (the clock reads 1000): none; a fresh pair;
\* an access token about to expire; no access cookie; an expired refresh token;
\* a refresh token that expires at the next tick
Cookie(id, exp, until) == [id |-> id, exp |-> exp, until |-> until]

InitCookies ==
  { <<NoToken, NoToken>>,
    <<Cookie(1, 1000 + AccessLife, 1000 + AccessLife),
      Cookie(1, 1000 + RefreshLife, 1000 + RefreshLife)>>,
    <<Cookie(1, 1000 + ShortLife, 1000 + AccessLife),
      Cookie(1, 1000 + RefreshLife, 1000 + RefreshLife)>>,
    <<NoToken, Cookie(1, 1000 + RefreshLife, 1000 + RefreshLife)>>,
    <<Cookie(1, 1000 + ShortLife, 1000 + AccessLife),
      Cookie(1, 1000 - ShortLife, 1000 + RefreshLife)>>,
    <<Cookie(1, 1000 + AccessLife, 1000 + AccessLife),
      Cookie(1, 1000 + AccessLife, 1000 + RefreshLife)>> }

InitCommon ==
  /\ now = 1000
  /\ \E p \in InitCookies : authTok = p[1] /\ refreshTok = p[2]
  /\ minted = 1
  /\ life \in AccessLives
  /\ isRefreshing = FALSE
  /\ refreshPromise = 0
  /\ calls = [c \in Calls |-> IdleCall]
  /\ waiters = [c \in Calls |-> <<>>]
  /\ mq = <<>>
  /\ isAuthenticated = FALSE
  /\ userSet = FALSE
  /\ hist = [c \in Calls |-> NoHist]
  /\ last = NoLast

\* useAuthInitializer has run its effect (its checkAuth() found isAuthenticated
\* false and changed nothing)
InitMounted ==
  /\ mounted = TRUE
  /\ timers = {1}
  /\ intervalRef = 1

\* the browser accepts every cookie write
Init == InitCommon /\ InitMounted /\ faults = 0

\* cookie writes may fail
InitFault == InitCommon /\ InitMounted /\ faults \in 0..MaxFaults

\* the component that calls useAuthInitializer() is not mounted yet
InitUnmounted ==
  /\ InitCommon
  /\ faults = 0
  /\ mounted = FALSE
  /\ timers = {}
  /\ intervalRef = 0

Next ==
  \/ \E c \in Calls, ep \in {"/devices", "/auth/login", "/auth/register"} : StartCall(c, ep)
  \/ \E c \in Calls : StartRefreshToken(c)
  \/ \E c \in Calls : \E h \in Replies(calls[c].ep, calls[c].isRetry) : FetchArrive(c, h)
  \/ \E c \in Calls : \E h \in Replies("/auth/refresh", TRUE) : RefreshArrive(c, h)
  \/ EvtInit
  \/ EvtWait
  \/ Cont
  \/ Logout
  \/ CheckAuth
  \/ validateTokens
  \/ Tick

Spec == Init /\ [][Next]_vars

\* every request sent is answered or fails in the end, and the promise
\* reactions queued are run
Fairness ==
  /\ \A c \in Calls :
       WF_vars(\E h \in Replies(calls[c].ep, calls[c].isRetry) : FetchArrive(c, h))
  /\ \A c \in Calls :
       WF_vars(\E h \in Replies("/auth/refresh", TRUE) : RefreshArrive(c, h))
  /\ WF_vars(EvtInit)
  /\ WF_vars(EvtWait)
  /\ WF_vars(Cont)

\* the page life at one reading of the clock
NextLive ==
  \/ \E c \in Calls, ep \in {"/devices", "/auth/login", "/auth/register"} : StartCall(c, ep)
  \/ \E c \in Calls : StartRefreshToken(c)
  \/ \E c \in Calls : \E h \in Replies(calls[c].ep, calls[c].isRetry) : FetchArrive(c, h)
  \/ \E c \in Calls : \E h \in Replies("/auth/refresh", TRUE) : RefreshArrive(c, h)
  \/ EvtInit
  \/ EvtWait
  \/ Cont
  \/ Logout
  \/ CheckAuth
  \/ validateTokens

SpecLive == Init /\ [][NextLive]_vars /\ Fairness

\* cookie writes may fail, the clock stands still
SpecFault == InitFault /\ [][NextLive]_vars

\* ------------------------------------------------- the token inspector alone
\* expiry dates around the clock and around the clock plus the buffer
Offsets == {-1, 0, 1, BufferTime - 1, BufferTime, BufferTime + 1, BufferTime + 2}

\* the cookies the inspector may be given: none, a token that does not decode,
\* a payload without exp, and tokens that expire at now + d
InspectTokens ==
  {NoToken, Cookie(1, -1, 1000 + RefreshLife), Cookie(1, 0, 1000 + RefreshLife)}
    \cup {Cookie(1, 1000 + d, 1000 + RefreshLife) : d \in Offsets}

InitInspect ==
  /\ now = 1000
  /\ authTok \in InspectTokens
  /\ refreshTok \in InspectTokens
  /\ faults = 0
  /\ minted = 1
  /\ life = AccessLife
  /\ isRefreshing = FALSE
  /\ refreshPromise = 0
  /\ calls = [c \in Calls |-> IdleCall]
  /\ waiters = [c \in Calls |-> <<>>]
  /\ mq = <<>>
  /\ isAuthenticated = FALSE
  /\ userSet = FALSE
  /\ InitMounted
  /\ hist = [c \in Calls |-> NoHist]
  /\ last = NoLast

\* isTokenExpiredOrExpiringSoon(getAuthToken()) is called
InspectAccess ==
  /\ last' = [NoLast EXCEPT !.ev = [NoEv EXCEPT
                 !.op = "isTokenExpiredOrExpiringSoon",
                 !.ret = isTokenExpiredOrExpiringSoon(getAuthToken)]]
  /\ UNCHANGED <<now, authTok, refreshTok, faults, minted, life, isRefreshing,
                 refreshPromise, calls, waiters, mq, isAuthenticated, userSet, hook,
                 hist>>

\* isRefreshTokenValid() is called
InspectRefresh ==
  /\ last' = [NoLast EXCEPT !.ev = [NoEv EXCEPT
                 !.op = "isRefreshTokenValid",
                 !.ret = isRefreshTokenValid]]
  /\ UNCHANGED <<now, authTok, refreshTok, faults, minted, life, isRefreshing,
                 refreshPromise, calls, waiters, mq, isAuthenticated, userSet, hook,
                 hist>>

\* a second passes
Second ==
  /\ now < 1000 + MaxSeconds
  /\ now' = now + 1
  /\ last' = NoLast
  /\ UNCHANGED <<authTok, refreshTok, faults, minted, life, isRefreshing,
                 refreshPromise, calls, waiters, mq, isAuthenticated, userSet, hook,
                 hist>>

NextInspect ==
  \/ InspectAccess
  \/ InspectRefresh
  \/ Second

SpecInspect == InitInspect /\ [][NextInspect]_vars

\* ------------------------------------------------------ the route middleware
\* A pathname is a sequence of pieces of its text, so that startsWith is the
\* prefix order: "/auth/login" is <<"/", "auth", "/", "login">>
startsWith(pathname, path) ==
  /\ Len(path) <= Len(pathname)
  /\ SubSeq(pathname, 1, Len(path)) = path

publicRoutes ==
  { <<"/", "auth", "/", "login">>,
    <<"/", "auth", "/", "register">> }

excludedPaths ==
  { <<"/", "api">>,
    <<"/", "_next", "/", "static">>,
    <<"/", "_next", "/", "image">>,
    <<"/", "favicon.ico">>,
    <<"/", "sitemap.xml">>,
    <<"/", "robots.txt">> }

NextResponseNext == [k |-> "next", to |-> <<>>, param |-> <<>>]

NextResponseRedirect(to, param) == [k |-> "redirect", to |-> to, param |-> param]

\* authToken && authToken.trim() !== "": the cookie is there (id 0: no cookie)
\* and its value is not white space only (id -1)
hasValidToken(authToken) == authToken.id # 0 /\ authToken.id # -1

\* variant: no route is public
isPublicRouteNever(pathname) == FALSE

isPublicRoute(pathname) == \E route \in publicRoutes : startsWith(pathname, route)

isRootPath(pathname) == pathname = <<"/">>

middleware(pathname, authToken) ==
  IF \E path \in excludedPaths : startsWith(pathname, path) THEN NextResponseNext
  ELSE IF ~hasValidToken(authToken) THEN
    IF ~isPublicRoute(pathname) /\ ~isRootPath(pathname)
    THEN NextResponseRedirect(<<"/", "auth", "/", "login">>, pathname)
    ELSE NextResponseNext
  ELSE IF isPublicRoute(pathname)
    THEN NextResponseRedirect(<<"/", "dashboard">>, <<>>)
  ELSE IF isRootPath(pathname)
    THEN NextResponseRedirect(<<"/", "dashboard">>, <<>>)
  ELSE NextResponseNext

\* the pathnames requested: "/", "/dashboard", "/dashboard/devices", "/auth",
\* "/auth/login", "/auth/login/reset", "/auth/loginx", "/auth/register",
\* "/api/devices", "/_next/static/app.js", "/favicon.ico"
Paths ==
  { <<"/">>,
    <<"/", "dashboard">>,
    <<"/", "dashboard", "/", "devices">>,
    <<"/", "auth">>,
    <<"/", "auth", "/", "login">>,
    <<"/", "auth", "/", "login", "/", "reset">>,
    <<"/", "auth", "/", "login", "x">>,
    <<"/", "auth", "/", "register">>,
    <<"/", "api", "/", "devices">>,
    <<"/", "_next", "/", "static", "/", "app.js">>,
    <<"/", "favicon.ico">> }

\* the cookies a request may come with: no access cookie, one whose value is
\* white space, a token; no refresh cookie, a valid token, an expired one
InitRoute ==
  /\ now = 1000
  /\ authTok \in {NoToken, Cookie(-1, -1, 1000 + AccessLife),
                  Cookie(1, 1000 + AccessLife, 1000 + AccessLife)}
  /\ refreshTok \in {NoToken, Cookie(1, 1000 + RefreshLife, 1000 + RefreshLife),
                     Cookie(1, 1000 - ShortLife, 1000 + RefreshLife)}
  /\ faults = 0
  /\ minted = 1
  /\ life = AccessLife
  /\ isRefreshing = FALSE
  /\ refreshPromise = 0
  /\ calls = [c \in Calls |-> IdleCall]
  /\ waiters = [c \in Calls |-> <<>>]
  /\ mq = <<>>
  /\ isAuthenticated = FALSE
  /\ userSet = FALSE
  /\ InitMounted
  /\ hist = [c \in Calls |-> NoHist]
  /\ last = NoLast

\* the browser requests pathname with the cookies it holds; the middleware runs
Request(pathname, followed) ==
  LET res == middleware(pathname, getAuthToken) IN
  /\ UNCHANGED <<now, authTok, refreshTok, faults, minted, life, isRefreshing,
                 refreshPromise, calls, waiters, mq, isAuthenticated, userSet, hook,
                 hist>>
  /\ last' = [NoLast EXCEPT !.ev =
                [Observed("middleware", res.k = "next") EXCEPT
                   !.path = pathname, !.to = res.to, !.param = res.param,
                   !.followed = followed]]

\* the user opens a page
Navigate == \E pathname \in Paths : Request(pathname, FALSE)

\* the browser follows the redirect the middleware has answered with
FollowRedirect ==
  /\ last.ev.op = "middleware"
  /\ ~last.ev.ret
  /\ Request(last.ev.to, TRUE)

NextRoute ==
  \/ Navigate
  \/ FollowRedirect
  \/ Tick

SpecRoute == InitRoute /\ [][NextRoute]_vars

\* the page life with the mounts and unmounts of the component
NextMount ==
  \/ Next
  \/ Mount
  \/ Unmount

SpecMount == InitUnmounted /\ [][NextMount]_vars

\* ================================================================ properties
\* the renewal requests of ensureValidToken() that are in flight
RenewalsInFlight == {c \in Calls : calls[c].rfetch}

\* the calls that have a promise reaction in the microtask queue
Queued == {mq[i].c : i \in 1..Len(mq)}

\* the calls inside ensureValidToken() whose await has not been settled
InEnsureValidToken == {c \in Calls : calls[c].evt # "none"} \ Queued

\* C1: calls of ensureValidToken() that overlap share one renewal: at most one
\* renewal request is in flight, it is the one refreshPromise stands for, every
\* call inside ensureValidToken() awaits that promise and only the call that
\* found the coordinator Idle sent a request; and once the renewal has
\* succeeded with a token pair, each of its callers reads that renewal's access
\* token from the store.
C1_SingleFlightRenewal ==
  /\ Cardinality(RenewalsInFlight) <= 1
  /\ \A c \in RenewalsInFlight : isRefreshing /\ refreshPromise = c
  /\ \A c \in InEnsureValidToken :
       /\ isRefreshing /\ refreshPromise # 0
       /\ hist[c].att = refreshPromise
       /\ calls[c].evt = "wait" => ~calls[c].rfetch /\ refreshPromise # c
  /\ \A c \in Calls :
       (hist[c].evtRes = "ok" /\ hist[c].renewed # 0 /\ hist[c].seen # -1)
         => hist[c].seen = hist[c].renewed

\* two callers of one renewal, the first having found the coordinator Idle with
\* an expiring access token and a valid refresh token, have both read the
\* renewed access token
C1_Witness ==
  \E c, d \in Calls :
    /\ c # d
    /\ hist[c].att = c /\ hist[d].att = c
    /\ hist[c].entIdle /\ hist[c].entRT /\ ~hist[d].entIdle
    /\ hist[c].evtRes = "ok" /\ hist[d].evtRes = "ok"
    /\ hist[c].renewed # 0 /\ hist[d].renewed = hist[c].renewed
    /\ hist[c].seen = hist[c].renewed /\ hist[d].seen = hist[c].renewed


\* C2: at most one POST /auth/refresh is in flight, whichever operation sent it:
\* the renewal requests of ensureValidToken() (pre-request check, 401 handler,
\* health() of the watchdog) and the requests of apiClient.refreshToken() counted
\* together.
RefreshTokenCallsInFlight ==
  {c \in Calls : calls[c].pc = "fetch" /\ calls[c].ep = "/auth/refresh"}

C2_AtMostOneRefreshInFlight ==
  Cardinality(RenewalsInFlight) + Cardinality(RefreshTokenCallsInFlight) <= 1

\* C3: the callers of one renewal end ensureValidToken() alike: a call that
\* joined a renewal returns from ensureValidToken() exactly when the call that
\* started the renewal does.
C3_SameOutcome ==
  \A c, d \in Calls :
    (/\ c # d
     /\ hist[c].att = c /\ hist[d].att = c
     /\ hist[c].evtRes # "" /\ hist[d].evtRes # "")
      => ((hist[c].evtRes = "ok") <=> (hist[d].evtRes = "ok"))

\* C4: a call of ensureValidToken() made without a valid refresh token
\* fails and has no renewal request sent, whatever the coordinator's state.
C4_NoRefreshTokenAlwaysFails ==
  \A c \in Calls :
    (hist[c].evtCount > 0 /\ ~hist[c].entRT)
      => (hist[c].evtRes # "ok" /\ hist[c].att # c /\ ~calls[c].rfetch)

\* C4, restricted to the Idle coordinator: a call of ensureValidToken() made without a valid refresh token
\* while no renewal is in flight fails at once with INVALID_TOKEN, has no renewal
\* request sent, and the gateway call that made it ends with TOKEN_EXPIRED.
C4_NoRefreshTokenFailsWhenIdle ==
  /\ \A c \in Calls :
       (hist[c].evtCount > 0 /\ hist[c].entIdle /\ ~hist[c].entRT)
         => /\ hist[c].evtRes = "INVALID_TOKEN"
            /\ hist[c].att = 0
            /\ calls[c].evt = "none" /\ ~calls[c].rfetch
  /\ (last.c # 0 /\ last.h.evtCount > 0 /\ last.h.entIdle /\ ~last.h.entRT)
       => (last.res = "TOKEN_EXPIRED" /\ last.h.evtRes = "INVALID_TOKEN" /\ last.h.att = 0)

\* a gateway call has ended after its ensureValidToken() found the coordinator
\* Idle and no valid refresh token
C4_Witness ==
  /\ last.c # 0
  /\ last.h.evtCount > 0 /\ last.h.entIdle /\ ~last.h.entRT
  /\ last.res = "TOKEN_EXPIRED"

\* C5: a call to a protected endpoint that starts with an expired-or-expiring
\* access token calls ensureValidToken() before it sends anything; and when that
\* ensureValidToken() fails, the call ends with TOKEN_EXPIRED, both cookies are
\* gone and no request was sent to the endpoint.
C5_PreCheckFailure ==
  /\ \A c \in Calls :
       (calls[c].ep \in ProtectedEndpoints /\ ~hist[c].startValid)
         => /\ hist[c].evtCount > 0
            /\ (hist[c].evtCount = 1 /\ ~hist[c].via401 /\ hist[c].evtRes # "ok")
                 => hist[c].sent = 0
  /\ (last.c # 0 /\ last.ep \in ProtectedEndpoints /\ ~last.h.startValid)
       => last.h.evtCount > 0
  /\ (/\ last.c # 0 /\ last.ep \in ProtectedEndpoints
      /\ ~last.isRetry /\ ~last.h.via401
      /\ last.h.evtCount = 1 /\ last.h.evtRes \notin {"", "ok"})
       => /\ last.res = "TOKEN_EXPIRED"
          /\ last.h.sent = 0
          /\ authTok = NoToken /\ refreshTok = NoToken

\* a call to a protected endpoint has ended in its pre-request check because the
\* renewal it started met a transport failure
C5_Witness ==
  /\ last.c # 0 /\ last.ep \in ProtectedEndpoints
  /\ ~last.h.startValid /\ ~last.isRetry /\ ~last.h.via401
  /\ last.h.att = last.c /\ last.h.evtRes = "NETWORK_ERROR"
  /\ last.res = "TOKEN_EXPIRED" /\ last.h.sent = 0

\* C6: a 401 answer to the first attempt of a call to an endpoint other than
\* /auth/login, /auth/register, /auth/refresh makes the gateway call
\* ensureValidToken(); after its success the call is retried once, after its
\* failure both cookies are gone and the call ends with TOKEN_EXPIRED.
C6_Handles401 ==
  /\ \A c \in Calls :
       (calls[c].ep \in ProtectedEndpoints /\ hist[c].got401) => hist[c].via401
  /\ (last.c # 0 /\ last.ep \in ProtectedEndpoints /\ last.h.got401)
       => /\ last.h.via401
          /\ last.h.evtRes = "ok" => (last.isRetry /\ last.h.sent = 2)
          /\ last.h.evtRes # "ok"
               => (last.res = "TOKEN_EXPIRED" /\ authTok = NoToken /\ refreshTok = NoToken)

\* C7: a gateway call that began with a valid-looking access token and whose
\* first attempt was answered 401 (the 401 handler having taken it up) makes one
\* call of ensureValidToken(), sends at most two requests to its endpoint, and
\* ends resolved or with TOKEN_EXPIRED.
C7_OneRenewalOneRetry ==
  /\ \A c \in Calls :
       (hist[c].startValid /\ hist[c].got401 /\ hist[c].via401)
         => (hist[c].evtCount = 1 /\ hist[c].sent <= 2)
  /\ (last.c # 0 /\ last.h.startValid /\ last.h.got401 /\ last.h.via401)
       => /\ last.h.evtCount = 1
          /\ last.h.sent <= 2
          /\ last.res \in {"ok", "TOKEN_EXPIRED"}

\* C8: a call to /auth/login, /auth/register or /auth/refresh never calls
\* ensureValidToken(), neither before its request nor on a 401 answer, and the
\* renewal's own request to /auth/refresh never enters the renewal path.
C8_AuthEndpointsNeverRenew ==
  /\ \A c \in Calls :
       /\ calls[c].ep \in AuthEndpoints
            => (hist[c].evtCount = 0 /\ calls[c].evt = "none" /\ ~calls[c].rfetch)
       /\ ~hist[c].nested
  /\ (last.c # 0 /\ last.ep \in AuthEndpoints)
       => (last.h.evtCount = 0 /\ ~last.h.via401)
  /\ \A ep \in AuthEndpoints, retry \in BOOLEAN :
       \A h \in Replies(ep, retry) : h.k # "refresh401"

\* a login made with an expiring access token has been answered 401 while a
\* renewal request is in flight
C8_Witness ==
  /\ last.c # 0 /\ last.ep = "/auth/login"
  /\ ~last.h.startValid /\ last.h.got401 /\ last.status = 401
  /\ RenewalsInFlight # {}

\* C9: the two cookies are written together: a step writes a token into the
\* access cookie exactly when it writes a token into the refresh cookie, and the
\* two then hold the tokens of one response.
C9_PairWrittenTogether ==
  [][ /\ (authTok' # authTok /\ authTok'.id # 0)
          <=> (refreshTok' # refreshTok /\ refreshTok'.id # 0)
      /\ (authTok' # authTok /\ authTok'.id # 0) => authTok'.id = refreshTok'.id
    ]_vars

\* C10: isAuthenticated is true exactly when isRefreshTokenValid() is.
C10_AuthenticatedIffRefreshValid ==
  isAuthenticated <=> isRefreshTokenValid


\* C11: checkAuth() returns true exactly when the refresh token is valid or an
\* access token is present.
C11_CheckAuthTrueIffEitherToken ==
  last.ev.op = "checkAuth" => (last.ev.ret <=> (last.ev.rt \/ last.ev.at))

\* C11, without the access token: checkAuth() returns true exactly when the
\* refresh token is valid, whether an access token is present or not.
C11_CheckAuthTrueIffRefreshValid ==
  last.ev.op = "checkAuth" => (last.ev.ret <=> last.ev.rt)

\* checkAuth() has returned false with an access token present
C11_Witness ==
  /\ last.ev.op = "checkAuth"
  /\ last.ev.at /\ ~last.ev.rt /\ ~last.ev.ret

\* C12: checkAuth() without a valid refresh token returns false; when
\* isAuthenticated was true it leaves no cookie, no user and isAuthenticated
\* false, and when isAuthenticated was false it changes nothing.
C12_CheckAuthClears ==
  (last.ev.op = "checkAuth" /\ ~last.ev.rt)
    => /\ ~last.ev.ret
       /\ last.ev.auth
            => (authTok = NoToken /\ refreshTok = NoToken /\ ~userSet /\ ~isAuthenticated)
       /\ ~last.ev.auth => ~last.ev.changed

\* checkAuth() has cleared a session whose access cookie was still there
C12_Witness ==
  /\ last.ev.op = "checkAuth" /\ ~last.ev.rt
  /\ last.ev.auth /\ last.ev.at /\ last.ev.changed
  /\ ~last.ev.ret /\ authTok = NoToken

\* C13: checkAuth() leaves isRefreshing and the requests in flight as they
\* were; and run again right after itself it returns what it returned before
\* and changes nothing.
C13_CheckAuthRepeatable ==
  /\ last.ev.op = "checkAuth"
       => (isRefreshing = last.ev.busy /\ RequestsInFlight = last.ev.nreq)
  /\ (last.ev.op = "checkAuth" /\ last.ev.again)
       => (last.ev.ret = last.ev.prevRet /\ ~last.ev.changed)

\* checkAuth() has run right after a checkAuth() that cleared the session,
\* with a renewal in flight
C13_Witness ==
  /\ last.ev.op = "checkAuth" /\ last.ev.again /\ last.ev.prevChanged
  /\ last.ev.busy

\* C14: when login() has resolved with success = true, both cookies are there
\* and checkAuth() returns true.
C14_LoginStoresTokens ==
  (last.c # 0 /\ last.ep = "/auth/login" /\ last.res = "ok" /\ last.success)
    => (getAuthToken.id # 0 /\ getRefreshToken.id # 0 /\ checkAuthReturns)

\* C15: when clearAuth() has returned, no cookie is left, isAuthenticated is
\* false and checkAuth() returns false.
C15_ClearAuthClears ==
  last.ev.op = "clearAuth"
    => /\ getAuthToken.id = 0 /\ getRefreshToken.id = 0
       /\ authTok = NoToken /\ refreshTok = NoToken
       /\ ~isAuthenticated /\ ~userSet
       /\ ~checkAuthReturns

\* clearAuth() has ended a session that had both tokens
C15_Witness ==
  /\ last.ev.op = "clearAuth"
  /\ last.ev.at /\ last.ev.rt /\ last.ev.auth /\ last.ev.changed

\* C16: isTokenExpiredOrExpiringSoon is true of no token and of a token that
\* does not decode, and of a token with an exp it is true exactly when
\* exp <= now + 120.
C16_ExpiringSoonBoundary ==
  last.ev.op = "isTokenExpiredOrExpiringSoon"
    => /\ (authTok.id = 0 \/ authTok.exp = -1) => last.ev.ret
       /\ (authTok.id # 0 /\ authTok.exp >= 0)
            => (last.ev.ret <=> authTok.exp <= now + 120)

\* the inspector has found a token with exp = now + 120 expiring
C16_Witness ==
  /\ last.ev.op = "isTokenExpiredOrExpiringSoon"
  /\ authTok.id # 0 /\ authTok.exp = now + 120
  /\ last.ev.ret

\* C17: isRefreshTokenValid() is true exactly when the refresh cookie is there,
\* decodes and has exp > now.
C17_RefreshValidBoundary ==
  last.ev.op = "isRefreshTokenValid"
    => (last.ev.ret <=>
          (refreshTok.id # 0 /\ refreshTok.exp # -1 /\ refreshTok.exp > now))

\* the inspector has found a refresh token with exp = now invalid
C17_Witness ==
  /\ last.ev.op = "isRefreshTokenValid"
  /\ refreshTok.id # 0 /\ refreshTok.exp = now
  /\ ~last.ev.ret

\* C18: a tick of the watchdog that finds the access token expiring and the
\* refresh token valid calls health(), whose pre-request check calls
\* ensureValidToken(): it joins the renewal in flight, or starts one when there
\* is none; a tick that finds the refresh token invalid clears the session; any
\* other tick changes nothing; and the last two send nothing.
C18_WatchdogTick ==
  /\ \A c \in Calls :
       calls[c].ep = "/health"
         => /\ hist[c].evtCount >= 1 /\ ~hist[c].startValid
            /\ (hist[c].evtCount = 1 /\ ~hist[c].via401)
                 => /\ hist[c].entRT
                    /\ hist[c].entIdle => hist[c].att = c
                    /\ ~hist[c].entIdle => (hist[c].att # c /\ ~calls[c].rfetch)
  /\ (last.c # 0 /\ last.ep = "/health") => last.h.evtCount >= 1
  /\ last.ev.op = "validateTokens"
       => /\ RequestsInFlight = last.ev.nreq /\ isRefreshing = last.ev.busy
          /\ ~last.ev.rt
               => (authTok = NoToken /\ refreshTok = NoToken
                   /\ ~isAuthenticated /\ ~userSet)
          /\ last.ev.rt => (~last.ev.exp /\ ~last.ev.changed)

\* the call of a tick has joined a renewal that was in flight
C18_Witness ==
  \E c \in Calls :
    /\ calls[c].ep = "/health" /\ calls[c].evt = "wait"
    /\ ~hist[c].entIdle /\ hist[c].att # c
    /\ Cardinality(RenewalsInFlight) = 1

\* C19: at most one interval is active; it is the one the mounted component
\* holds; none is active while the component is not mounted, so no tick starts
\* then.
C19_TimerPaired ==
  /\ Cardinality(timers) <= 1
  /\ mounted => timers = {intervalRef}
  /\ ~mounted => timers = {}
  /\ last.ev.op = "validateTokens" => mounted

\* the component has been mounted and taken down again
C19_Witness ==
  /\ ~mounted /\ intervalRef # 0
  /\ timers = {}

\* C20: of the 2xx replies a request in flight may get, one without a boolean
\* success flag makes request() throw NETWORK_ERROR, and one that carries an
\* error payload makes request() throw.
C20_ResponseValidation ==
  \A c \in Calls :
    calls[c].pc = "fetch"
      => \A r \in Responses :
           (r.status = 200 /\ r.json)
             => LET h == HandleResponse(r, calls[c].ep, calls[c].isRetry) IN
                /\ r.success = "none" => (h.k = "throw" /\ h.code = "NETWORK_ERROR")
                /\ r.error => h.k = "throw"

\* C21: a gateway call that fails rejects with an ApiError: its code is one of
\* the client's codes or the server's, never a raw exception.  Of the replies a
\* request in flight may get and that request() does not hand to its 401
\* handler: a non-2xx reply with an error envelope is thrown with the server's
\* code and the reply's status, a non-2xx reply that is not JSON or has no error
\* field with NETWORK_ERROR and the reply's status, a transport failure with
\* NETWORK_ERROR and status 0.
C21_StructuredErrors ==
  /\ \A c \in Calls :
       calls[c].pc = "fetch"
         => \A r \in Responses :
              LET h == HandleResponse(r, calls[c].ep, calls[c].isRetry) IN
              (r.status # 200 /\ h.k # "refresh401")
                => /\ h.k = "throw"
                   /\ r.status = 0 => (h.code = "NETWORK_ERROR" /\ h.status = 0)
                   /\ (r.status # 0 /\ r.json /\ r.error)
                        => (h.code = "SERVER_CODE" /\ h.status = r.status)
                   /\ (r.status # 0 /\ (~r.json \/ ~r.error))
                        => (h.code = "NETWORK_ERROR" /\ h.status = r.status)
  /\ (last.c # 0 /\ last.res # "ok")
       => /\ last.res \in ErrorCodes
          /\ last.res \in {"TOKEN_EXPIRED", "INVALID_TOKEN"} => last.status = 401
          /\ last.res = "SERVER_CODE" => last.status # 0
          /\ last.status = 0 => last.res = "NETWORK_ERROR"

\* the retry that followed a renewal has met a transport failure
C21_Witness ==
  /\ last.c # 0 /\ last.isRetry /\ last.h.via401 /\ last.h.evtRes = "ok"
  /\ last.res = "NETWORK_ERROR" /\ last.status = 0

\* C22: when ensureValidToken() has returned to a call, initiator or waiter,
\* the store held the access token of the renewal it awaited, and the request
\* the call sends next carries that token as its bearer.
C22_StoreBeforeSuccess ==
  \A c \in Calls :
    (hist[c].evtRes = "ok" /\ calls[c].pc = "fetch")
      => /\ hist[c].renewed # 0
         /\ hist[c].seen = hist[c].renewed
         /\ calls[c].bearer = hist[c].renewed

\* C23: isRefreshing is true exactly when refreshPromise is non-null; the
\* coordinator is Renewing while its renewal request is in flight and, once
\* that request has settled, only until the reaction of the call that started
\* it runs, which is the first one queued; so between two tasks the coordinator
\* is Renewing exactly when its renewal request is in flight, and a renewal
\* that has ended, in success or in failure, leaves it Idle.
C23_RenewingIffInFlight ==
  /\ isRefreshing <=> refreshPromise # 0
  /\ \A c \in RenewalsInFlight : isRefreshing /\ refreshPromise = c
  /\ isRefreshing
       => \/ refreshPromise \in RenewalsInFlight
          \/ mq # <<>> /\ Head(mq).k = "evtInit" /\ Head(mq).c = refreshPromise
  /\ mq = <<>> => (isRefreshing <=> RenewalsInFlight # {})
  /\ (last.c # 0 /\ last.h.att = last.c /\ last.h.evtRes # "")
       => refreshPromise # last.c

\* a call has ended after the renewal it started met a transport failure, and
\* the coordinator is Idle
C23_Witness ==
  /\ last.c # 0 /\ last.h.att = last.c /\ last.h.evtRes = "NETWORK_ERROR"
  /\ ~isRefreshing /\ refreshPromise = 0

\* C24: a failure of the request to /auth/refresh, a transport failure or an
\* error reply, reaches the caller of the operation that sent it as
\* TOKEN_EXPIRED with both cookies removed: for a gateway call whose
\* ensureValidToken() started the renewal (pre-request check, 401 handler,
\* health() of the watchdog) and for apiClient.refreshToken().
C24_RefreshFailureNormalized ==
  /\ (/\ last.c # 0 /\ last.h.evtCount > 0 /\ last.h.att = last.c
      /\ last.h.evtRes \in {"NETWORK_ERROR", "SERVER_CODE"})
       => (last.res = "TOKEN_EXPIRED" /\ authTok = NoToken /\ refreshTok = NoToken)
  /\ (/\ last.c # 0 /\ last.ep = "/auth/refresh" /\ last.h.sent > 0
      /\ last.res # "ok")
       => (last.res = "TOKEN_EXPIRED" /\ authTok = NoToken /\ refreshTok = NoToken)

\* C25: when the renewal started by health() of a watchdog tick has failed and
\* the tick is over, no cookie is left and the auth store is unauthenticated:
\* isAuthenticated false, no user.
C25_WatchdogFailureClears ==
  (/\ last.c # 0 /\ last.ep = "/health"
   /\ last.h.att = last.c /\ last.h.evtRes \notin {"", "ok"})
    => /\ authTok = NoToken /\ refreshTok = NoToken
       /\ ~isAuthenticated /\ ~userSet

\* C26: the outcome of a renewal leaves the cookies as the session operation
\* left them that completed while the renewal was awaited: after a logout it
\* creates no token, after a login or register it neither replaces nor removes
\* the tokens stored.  Stated of the steps in which a call takes up the outcome
\* of the renewal it awaited.
C26_RenewalNeverOverrides ==
  [][ (/\ mq # <<>>
       /\ Head(mq).k \in {"evtInit", "cont"}
       /\ hist[Head(mq).c].overtaken # "")
        => (authTok' = authTok /\ refreshTok' = refreshTok)
    ]_vars

\* the one ensureValidToken() call of call c was made by its 401 handler and
\* started a renewal
Renewed401(c) ==
  hist[c].via401 /\ hist[c].evtCount = 1 /\ hist[c].att = c

\* C27: of the protected calls whose first request carried one and the same
\* access token and was answered 401, at most one has its 401 handler start a
\* renewal, in whatever order the answers arrive.
C27_OneRenewalPerStaleToken ==
  \A c, d \in Calls :
    (/\ c # d
     /\ hist[c].got401 /\ hist[d].got401
     /\ hist[c].first > 0 /\ hist[c].first = hist[d].first)
      => ~(Renewed401(c) /\ Renewed401(d))

\* C28: every gateway call that has been made settles in the end, provided
\* every request sent is answered or fails in the end; a call that has settled
\* awaits nothing, so every call of ensureValidToken(), of an initiator or of a
\* waiter, has returned or thrown by then; and no call sends more than two
\* requests to its endpoint or calls ensureValidToken() more than three times
\* (pre-request check, 401 handler, pre-request check of the retry).
C28_EveryCallTerminates ==
  /\ [](\A c \in Calls :
         /\ hist[c].sent <= 2 /\ hist[c].evtCount <= 3
         /\ calls[c].pc \in {"idle", "done"}
              => /\ calls[c].evt = "none" /\ ~calls[c].rfetch
                 /\ \A d \in Calls : \A i \in 1..Len(waiters[d]) : waiters[d][i] # c)
  /\ \A c \in Calls : (calls[c].pc \notin {"idle", "done"}) ~> (calls[c].pc = "done")

\* a call has ended after three calls of ensureValidToken()
C28_Witness ==
  /\ last.c # 0
  /\ last.h.evtCount = 3

\* C29: whenever checkAuth() returns true, a request for a protected route, one
\* that is not "/" and does not start with /auth/login or /auth/register, is
\* let through by the middleware.
C29_MiddlewareAgreesWithCheckAuth ==
  (/\ last.ev.op = "middleware"
   /\ checkAuthReturns
   /\ last.ev.path # <<"/">>
   /\ ~startsWith(last.ev.path, <<"/", "auth", "/", "login">>)
   /\ ~startsWith(last.ev.path, <<"/", "auth", "/", "register">>))
    => last.ev.ret

\* C30: the request the browser makes to follow a redirect of the middleware is
\* let through; a request without an access cookie, or with a blank one, for a
\* path that is neither public nor "/" nor excluded is redirected to
\* /auth/login with redirect = the path; a request with an access cookie for
\* "/", /auth/login or /auth/register is redirected to /dashboard.
C30_NoRedirectLoop ==
  last.ev.op = "middleware"
    => /\ last.ev.followed => last.ev.ret
       /\ (/\ getAuthToken.id \in {0, -1}
           /\ last.ev.path # <<"/">>
           /\ \A route \in publicRoutes \cup excludedPaths :
                ~startsWith(last.ev.path, route))
            => /\ ~last.ev.ret
               /\ last.ev.to = <<"/", "auth", "/", "login">>
               /\ last.ev.param = last.ev.path
       /\ (/\ getAuthToken.id > 0
           /\ last.ev.path \in {<<"/">>, <<"/", "auth", "/", "login">>,
                                <<"/", "auth", "/", "register">>})
            => (~last.ev.ret /\ last.ev.to = <<"/", "dashboard">>)

\* the browser has followed the redirect from /auth/login to /dashboard and
\* been let through
C30_Witness ==
  /\ last.ev.op = "middleware" /\ last.ev.followed
  /\ last.ev.again /\ ~last.ev.prevRet
  /\ last.ev.path = <<"/", "dashboard">>
  /\ getAuthToken.id > 0
  /\ last.ev.ret

====
